---- MODULE Spec2Model ----
(***************************************************************************)
(* Model of the face cluster store of hometube                             *)
(* (src/face-recognition-service.js) together with the HTTP entry points   *)
(* that drive it (server, "Face recognition API endpoints").               *)
(*                                                                         *)
(* Node.js runs one JavaScript job at a time: an async function runs       *)
(* without interruption up to its next await.  Every action below is one   *)
(* such uninterrupted piece; the per-face loop of processImage is split    *)
(* into one step per face, and `running` names the call that holds the     *)
(* thread so that no other action is enabled in between.                   *)
(***************************************************************************)
EXTENDS Integers, Sequences, FiniteSets, TLC

VARIABLES
    faceGroups,     \* this.faceGroups: Map id -> {referenceEmbedding, images}, in insertion order
    groupsFile,     \* faces/face-groups.json
    faceData,       \* faces/<key>.json, one per record key
    modelsLoaded,   \* this.modelsLoaded
    modelsOnDisk,   \* whether the models directory exists
    calls,          \* the processImage call of each caller
    batch,          \* the processImages call started by POST /api/process-faces
    running,        \* the call that holds the JavaScript thread, or None
    response,       \* the HTTP response sent by the last step, if it sent one
    started,        \* number of filenames submitted for processing so far
    firstWritten    \* history: the record file as the first call that returned it wrote it

vars == <<faceGroups, groupsFile, faceData, modelsLoaded, modelsOnDisk,
          calls, batch, running, response, started, firstWritten>>

-----------------------------------------------------------------------------
(* Bounds *)

MaxStarts == 3      \* filenames submitted for processing in one run
MaxBatch == 2       \* longest filenames array of POST /api/process-faces
MaxQueryStarts == 2 \* filenames submitted in a run that also reads
NumIds == 3         \* distinct strings `face_${Date.now()}_${random}` that occur
Precision == 5      \* bits in the significand of a number (a double has 53)
MaxCoordinate == 2  \* largest component of a vector given to cosineSimilarity directly

-----------------------------------------------------------------------------
(* Values *)

None == "none"              \* no caller
NoId == 0                   \* null where a cluster id is expected
Missing == [kind |-> "missing"]     \* the file does not exist
Corrupt == [kind |-> "corrupt"]     \* the file holds a truncated JSON text

\* Embeddings have integer components and an integer norm, so that every
\* product, sum and square root of cosineSimilarity is exact in IEEE
\* doubles and the quotient is the double nearest to the rational modelled.
E1 == <<1, 0>>
E2 == <<3, 4>>
E3 == <<4, 3>>
E4 == <<4, -3>>
EZ == <<0, 0>>
Embeddings == {E1, E2, E3, E4, EZ}

\* Filenames are sequences of characters.
FileAB == <<"a", "/", "b">>
FileA_B == <<"a", "_", "b">>
FileC == <<"c">>
FileD == <<"d">>
FileE == <<"e">>
FileG == <<"g">>
FileH == <<"h">>
FileM == <<"m">>
FileT == <<"t">>
FileU == <<"u">>
Filenames == {FileAB, FileA_B, FileC, FileD, FileE, FileG, FileH, FileM, FileT}

\* the filenames of the requests of a run in which two requests for one file overlap
OverlapInputs == {FileC, FileU, FileAB}

\* The image files under basePath; FileM does not exist.
ImageFiles == (Filenames \cup OverlapInputs) \ {FileM}

Face(e, b) == [embedding |-> e, box |-> b]

\* What the detector finds in each image, in detection order.
Detections(f) ==
    CASE f = FileAB -> <<Face(EZ, 1)>>
      [] f = FileA_B -> <<Face(EZ, 2)>>
      [] f = FileC -> <<Face(E1, 1)>>
      [] f = FileD -> <<>>
      [] f = FileE -> <<Face(E4, 1), Face(E2, 2)>>
      [] f = FileG -> <<Face(E1, 2)>>
      [] f = FileH -> <<Face(E3, 1), Face(E1, 2)>>
      [] f = FileT -> <<Face(E2, 1), Face(E2, 2)>>
      [] f = FileU -> <<Face(E3, 1), Face(E2, 2)>>
      [] OTHER -> <<>>

GroupIds == 1..NumIds

\* the embeddings matchFace is called with directly
QueryEmbeddings == {E1, EZ}

\* the vectors cosineSimilarity is called with directly
Coordinates == (-MaxCoordinate)..MaxCoordinate
Vectors == {<<x, y>> : x \in Coordinates, y \in Coordinates}

\* the filenames a POST /api/process-faces body is drawn from
BatchInputs == {FileC, FileM, FileA_B}
Callers == {"req1", "req2", "batch"}
Requests == {"req1", "req2"}

-----------------------------------------------------------------------------
(* Numbers: a similarity is the rational <<n, d>> in lowest terms, d > 0 *)

RECURSIVE GCD(_, _)
GCD(a, b) == IF b = 0 THEN a ELSE GCD(b, a % b)

Abs(n) == IF n < 0 THEN -n ELSE n

Rat(n, d) ==
    LET g == GCD(Abs(n), d) IN <<n \div g, d \div g>>

Greater(p, q) == p[1] * q[2] > q[1] * p[2]

One == <<1, 1>>
Zero == <<0, 1>>

\* a threshold that not even an identical embedding exceeds
ThresholdOne == <<1, 1>>

\* threshold = 0.6, the default of matchFace
Threshold == <<3, 5>>

\* Math.sqrt on the perfect squares that occur
Sqrt(n) == CHOOSE r \in 0..n : r * r = n

-----------------------------------------------------------------------------
(* The pure functions of the service *)

RECURSIVE SumTo(_, _, _)
\* the accumulation of lines 115-119: sum of a[i]*b[i] for i = 1..n
SumTo(a, b, n) == IF n = 0 THEN 0 ELSE SumTo(a, b, n - 1) + a[n] * b[n]

\* a cosine similarity that takes a vector of zero norm to be like every vector
cosineSimilarityZeroIsOne(embedding1, embedding2) ==
    LET n == Len(embedding1)
        dotProduct == SumTo(embedding1, embedding2, n)
        norm1 == Sqrt(SumTo(embedding1, embedding1, n))
        norm2 == Sqrt(SumTo(embedding2, embedding2, n))
    IN  IF norm1 = 0 \/ norm2 = 0 THEN One
        ELSE Rat(dotProduct, norm1 * norm2)

\* cosineSimilarity(embedding1, embedding2), lines 110-126
cosineSimilarity(embedding1, embedding2) ==
    LET n == Len(embedding1)
        dotProduct == SumTo(embedding1, embedding2, n)
        norm1 == Sqrt(SumTo(embedding1, embedding1, n))
        norm2 == Sqrt(SumTo(embedding2, embedding2, n))
    IN  IF norm1 = 0 \/ norm2 = 0 THEN Zero
        ELSE Rat(dotProduct, norm1 * norm2)

\* The same function on numbers with a significand of Precision bits, every
\* operation rounded to nearest, ties to even, as IEEE 754 arithmetic is.

\* the positive rational n/d rounded to the nearest number m * 2^k with m below
\* 2^Precision
RoundToNearest(n, d) ==
    LET k == CHOOSE k \in -(3 * Precision)..(3 * Precision) :
                 LET sn == IF k < 0 THEN n * 2^(-k) ELSE n
                     sd == IF k > 0 THEN d * 2^k ELSE d
                 IN  2^(Precision - 1) * sd <= sn /\ sn < 2^Precision * sd
        sn == IF k < 0 THEN n * 2^(-k) ELSE n
        sd == IF k > 0 THEN d * 2^k ELSE d
        m == sn \div sd
        rest == sn - m * sd
        up == 2 * rest > sd \/ (2 * rest = sd /\ m % 2 = 1)
        rounded == IF up THEN m + 1 ELSE m
    IN  IF k < 0 THEN Rat(rounded, 2^(-k)) ELSE Rat(rounded * 2^k, 1)

\* Math.sqrt of the integer n, correctly rounded
SqrtRounded(n) ==
    IF n = 0 THEN Zero
    ELSE LET k == CHOOSE k \in 0..(2 * Precision) :
                      4^(Precision - 1) <= n * 4^k /\ n * 4^k < 4^Precision
             y == n * 4^k
             m == CHOOSE m \in 0..(2^Precision) : m * m <= y /\ y < (m + 1) * (m + 1)
             rounded == IF y > m * m + m THEN m + 1 ELSE m
         IN  Rat(rounded, 2^k)

\* cosineSimilarity(embedding1, embedding2), lines 110-126, on vectors of small
\* integers: the sums of lines 115-119 are exact, the square roots of lines
\* 121-122, the product and the quotient of line 125 are rounded
cosineSimilarityRounded(embedding1, embedding2) ==
    LET n == Len(embedding1)
        dotProduct == SumTo(embedding1, embedding2, n)
        norm1 == SqrtRounded(SumTo(embedding1, embedding1, n))
        norm2 == SqrtRounded(SumTo(embedding2, embedding2, n))
    IN  IF norm1 = Zero \/ norm2 = Zero THEN Zero
        ELSE LET product == RoundToNearest(norm1[1] * norm2[1], norm1[2] * norm2[2])
                 quotient == IF dotProduct = 0 THEN Zero
                             ELSE RoundToNearest(Abs(dotProduct) * product[2], product[1])
             IN  IF dotProduct < 0 THEN <<-quotient[1], quotient[2]>> ELSE quotient

NoMatch == [faceId |-> NoId, similarity |-> Zero]

\* the comparison of line 141 with >= for >
BetterOrEqual(similarity, bestSimilarity) == ~Greater(bestSimilarity, similarity)

\* the comparison of line 141
Better(similarity, bestSimilarity) == Greater(similarity, bestSimilarity)

RECURSIVE MatchLoop(_, _, _, _, _)
\* the loop of lines 137-145 from entry i on, insertion order
MatchLoop(embedding, groups, i, bestMatch, bestSimilarity) ==
    IF i > Len(groups) THEN [faceId |-> bestMatch, similarity |-> bestSimilarity]
    ELSE LET similarity == cosineSimilarity(embedding, groups[i].referenceEmbedding)
         IN  IF Better(similarity, bestSimilarity)
             THEN MatchLoop(embedding, groups, i + 1, groups[i].id, similarity)
             ELSE MatchLoop(embedding, groups, i + 1, bestMatch, bestSimilarity)

RECURSIVE FirstLoop(_, _, _)
FirstLoop(embedding, groups, i) ==
    IF i > Len(groups) THEN NoMatch
    ELSE LET similarity == cosineSimilarity(embedding, groups[i].referenceEmbedding)
         IN  IF Greater(similarity, Threshold)
             THEN [faceId |-> groups[i].id, similarity |-> similarity]
             ELSE FirstLoop(embedding, groups, i + 1)

\* a matchFace that stops at the first cluster above the threshold
matchFaceFirst(embedding, groups) == FirstLoop(embedding, groups, 1)

\* matchFace(embedding) with the default threshold, over the cluster map `groups`
matchFace(embedding, groups) ==
    LET best == MatchLoop(embedding, groups, 1, NoId, Threshold)
    IN  IF best.faceId # NoId THEN best ELSE NoMatch

\* Map operations on the insertion-ordered cluster map
MapHas(groups, id) == \E i \in 1..Len(groups) : groups[i].id = id

MapIndex(groups, id) == CHOOSE i \in 1..Len(groups) : groups[i].id = id

MapGet(groups, id) == groups[MapIndex(groups, id)]

\* Map.prototype.set: an existing key keeps its position
MapSet(groups, id, referenceEmbedding, images) ==
    LET entry == [id |-> id, referenceEmbedding |-> referenceEmbedding, images |-> images]
    IN  IF MapHas(groups, id)
        THEN [groups EXCEPT ![MapIndex(groups, id)] = entry]
        ELSE Append(groups, entry)

Includes(images, filename) == \E i \in 1..Len(images) : images[i] = filename

\* filename.replace(/\//g, '_'): the key of the record file of `filename`
RecordKey(filename) ==
    [i \in 1..Len(filename) |-> IF filename[i] = "/" THEN "_" ELSE filename[i]]

RecordKeys == {RecordKey(f) : f \in Filenames \cup OverlapInputs}

\* JSON.stringify / JSON.parse of the values written here (finite numbers,
\* strings, arrays, plain objects): the text of a value, and the value of a text
Stringify(value) == [kind |-> "json", json |-> value]

CanParse(text) == text.kind = "json"

Parse(text) == text.json

\* lines 194-196 without the includes test
AddImageAlways(images, filename) == Append(images, filename)

\* lines 194-196: push the filename unless the images include it
AddImage(images, filename) ==
    IF Includes(images, filename) THEN images ELSE Append(images, filename)

\* unshift for push
PushFront(groups, entry) == <<entry>> \o groups

\* groups.push(entry), lines 197 and 205
PushEntry(groups, entry) == Append(groups, entry)

\* the loop body with a new cluster that starts without its image
AssignFaceEmptyCluster(groups, filename, face, newId) ==
    LET match == matchFace(face.embedding, groups)
    IN  IF match.faceId # NoId
        THEN [faceGroups |-> MapSet(groups, match.faceId,
                                    MapGet(groups, match.faceId).referenceEmbedding,
                                    AddImage(MapGet(groups, match.faceId).images, filename)),
              entry |-> [groupId |-> match.faceId, similarity |-> match.similarity]]
        ELSE [faceGroups |-> MapSet(groups, newId, face.embedding, <<>>),
              entry |-> [groupId |-> newId, similarity |-> One]]

\* the body of one iteration of the loop of lines 180-207, for one face:
\* the cluster map and the group entry it yields
AssignFace(groups, filename, face, newId) ==
    LET match == matchFace(face.embedding, groups)
    IN  IF match.faceId # NoId
        THEN LET groupId == match.faceId
                 present == IF MapHas(groups, groupId) THEN groups
                            ELSE MapSet(groups, groupId, face.embedding, <<>>)
                 group == MapGet(present, groupId)
                 images == AddImage(group.images, filename)
             IN  [faceGroups |-> MapSet(present, groupId, group.referenceEmbedding, images),
                  entry |-> [groupId |-> groupId, similarity |-> match.similarity]]
        ELSE [faceGroups |-> MapSet(groups, newId, face.embedding, <<filename>>),
              entry |-> [groupId |-> newId, similarity |-> One]]

\* getFaceGroups()
getFaceGroups(groups) ==
    [i \in 1..Len(groups) |->
        [id |-> groups[i].id, imageCount |-> Len(groups[i].images), images |-> groups[i].images]]

\* a getGroupImages that answers an unknown id with the images of the first cluster
getGroupImagesOrFirst(groups, groupId) ==
    IF MapHas(groups, groupId) THEN MapGet(groups, groupId).images
    ELSE IF Len(groups) > 0 THEN groups[1].images ELSE <<>>

\* getGroupImages(groupId)
getGroupImages(groups, groupId) ==
    IF MapHas(groups, groupId) THEN MapGet(groups, groupId).images ELSE <<>>

\* a loader that keeps a placeholder cluster for a file it cannot read
loadFaceGroupsPlaceholder(file) ==
    IF CanParse(file) THEN Parse(file)
    ELSE <<[id |-> 1, referenceEmbedding |-> EZ, images |-> <<>>]>>

\* loadFaceGroups(): the cluster map read from face-groups.json
loadFaceGroups(file) == IF CanParse(file) THEN Parse(file) ELSE <<>>

-----------------------------------------------------------------------------
(* Calls *)

NoResult == [kind |-> "none"]
Returned(value) == [kind |-> "ok", value |-> value]
Thrown(message) == [kind |-> "error", message |-> message]

NoResponse == [kind |-> "none"]

IdleCall ==
    [pc |-> "idle", filename |-> <<>>, faces |-> <<>>, idx |-> 0, groups |-> <<>>,
     result |-> NoResult]

\* a processImage call that has returned or thrown.  The promise of a batch call
\* is awaited by processImages; that of a request is answered over HTTP
\* (res.json(result) or status 500) and the caller is free again.
CallAfter(c, filename, result) ==
    IF c = "batch"
    THEN [pc |-> "done", filename |-> filename, faces |-> <<>>, idx |-> 0,
          groups |-> <<>>, result |-> result]
    ELSE IdleCall

ResponseAfter(c, filename, result) ==
    IF c = "batch" THEN NoResponse
    ELSE [kind |-> "detect-faces", caller |-> c, filename |-> filename, result |-> result]

WaitingCall(pc, filename) ==
    [pc |-> pc, filename |-> filename, faces |-> <<>>, idx |-> 0, groups |-> <<>>,
     result |-> NoResult]

NoBatch == [pc |-> "idle", filenames |-> <<>>, i |-> 0, results |-> <<>>, progress |-> <<>>]

\* a call is in progress from its start until it has returned or thrown
InProgress(c) == calls[c].pc \in {"loading", "detecting", "matching"}

\* the cache test of line 162
AlreadyProcessed(filename) == faceData[RecordKey(filename)] # Missing

\* a processImage that goes on to detection without looking at modelsLoaded
processImageStartUnchecked(filename) ==
    IF filename \notin ImageFiles
    THEN [pc |-> "done", result |-> Thrown("Image not found")]
    ELSE IF AlreadyProcessed(filename)
    THEN IF CanParse(faceData[RecordKey(filename)])
         THEN [pc |-> "done", result |-> Returned(Parse(faceData[RecordKey(filename)]))]
         ELSE [pc |-> "done", result |-> Thrown("SyntaxError")]
    ELSE [pc |-> "detecting", result |-> NoResult]

\* processImage(filename) up to its first await (lines 153-168, 53-60, 30-42):
\* where the call stands then, and its result if it is over
processImageStart(filename) ==
    IF filename \notin ImageFiles
    THEN [pc |-> "done", result |-> Thrown("Image not found")]
    ELSE IF AlreadyProcessed(filename)
    THEN IF CanParse(faceData[RecordKey(filename)])
         THEN [pc |-> "done", result |-> Returned(Parse(faceData[RecordKey(filename)]))]
         ELSE [pc |-> "done", result |-> Thrown("SyntaxError")]
    ELSE IF ~modelsLoaded
    THEN IF ~modelsOnDisk
         THEN [pc |-> "done", result |-> Thrown("Face detection models not found")]
         ELSE [pc |-> "loading", result |-> NoResult]
    ELSE [pc |-> "detecting", result |-> NoResult]

\* the state of caller c's call after processImage(filename) has run to its first await
CallStarted(c, filename) ==
    LET at == processImageStart(filename)
    IN  IF at.pc = "done" THEN CallAfter(c, filename, at.result)
        ELSE WaitingCall(at.pc, filename)

ResponseStarted(c, filename) ==
    LET at == processImageStart(filename)
    IN  IF at.pc = "done" THEN ResponseAfter(c, filename, at.result) ELSE NoResponse

Init ==
    /\ faceGroups = loadFaceGroups(Missing)
    /\ groupsFile = Missing
    /\ faceData = [k \in RecordKeys |-> Missing]
    /\ modelsLoaded = FALSE
    /\ modelsOnDisk \in BOOLEAN
    /\ calls = [c \in Callers |-> IdleCall]
    /\ batch = NoBatch
    /\ running = None
    /\ response = NoResponse
    /\ started = 0
    /\ firstWritten = [k \in RecordKeys |-> Missing]

\* npm run download-models
InstallModels ==
    /\ running = None
    /\ ~modelsOnDisk
    /\ modelsOnDisk' = TRUE
    /\ response' = NoResponse
    /\ UNCHANGED <<faceGroups, groupsFile, faceData, modelsLoaded, calls, batch,
                   running, started, firstWritten>>

\* the caller of the next request: the names are arbitrary, so "req2" is the
\* one that starts while "req1" is under way
FreeRequest(c) ==
    /\ calls[c].pc = "idle"
    /\ c = "req2" => calls["req1"].pc # "idle"

\* POST /api/detect-faces/:filename up to the first await of processImage
DetectFacesRequest(c, filename) ==
    /\ running = None
    /\ started < MaxStarts
    /\ FreeRequest(c)
    /\ calls' = [calls EXCEPT ![c] = CallStarted(c, filename)]
    /\ response' = ResponseStarted(c, filename)
    /\ started' = started + 1
    /\ UNCHANGED <<faceGroups, groupsFile, faceData, modelsLoaded, modelsOnDisk,
                   batch, running, firstWritten>>

\* loadModels() resumes after the three loadFromDisk awaits (lines 42-47)
LoadModelsDone(c) ==
    /\ running = None
    /\ calls[c].pc = "loading"
    /\ \/ /\ modelsLoaded' = TRUE
          /\ calls' = [calls EXCEPT ![c].pc = "detecting"]
          /\ response' = NoResponse
       \/ /\ calls' = [calls EXCEPT ![c] =
                          CallAfter(c, calls[c].filename, Thrown("load failed"))]
          /\ response' = ResponseAfter(c, calls[c].filename, Thrown("load failed"))
          /\ UNCHANGED modelsLoaded
    /\ UNCHANGED <<faceGroups, groupsFile, faceData, modelsOnDisk, batch, running,
                   started, firstWritten>>

\* a processImage that leaves an empty record behind when detection fails
DetectFacesDoneLeavesRecord(c) ==
    /\ running = None
    /\ calls[c].pc = "detecting"
    /\ \/ /\ calls' = [calls EXCEPT ![c].pc = "matching",
                                    ![c].faces = Detections(calls[c].filename),
                                    ![c].idx = 1]
          /\ running' = c
          /\ response' = NoResponse
          /\ UNCHANGED faceData
       \/ /\ calls' = [calls EXCEPT ![c] =
                          CallAfter(c, calls[c].filename, Thrown("detection failed"))]
          /\ response' = ResponseAfter(c, calls[c].filename, Thrown("detection failed"))
          /\ faceData' = [faceData EXCEPT ![RecordKey(calls[c].filename)] =
                              Stringify([filename |-> calls[c].filename,
                                         faces |-> <<>>, groups |-> <<>>])]
          /\ UNCHANGED running
    /\ UNCHANGED <<faceGroups, groupsFile, modelsLoaded, modelsOnDisk,
                   batch, started, firstWritten>>

\* processImage resumes from `await this.detectFaces(imagePath)` (line 168)
DetectFacesDone(c) ==
    /\ running = None
    /\ calls[c].pc = "detecting"
    /\ \/ /\ calls' = [calls EXCEPT ![c].pc = "matching",
                                    ![c].faces = Detections(calls[c].filename),
                                    ![c].idx = 1]
          /\ running' = c
          /\ response' = NoResponse
       \/ /\ calls' = [calls EXCEPT ![c] =
                          CallAfter(c, calls[c].filename, Thrown("detection failed"))]
          /\ response' = ResponseAfter(c, calls[c].filename, Thrown("detection failed"))
          /\ UNCHANGED running
    /\ UNCHANGED <<faceGroups, groupsFile, faceData, modelsLoaded, modelsOnDisk,
                   batch, started, firstWritten>>

IdsOfGroups(groups) == {groups[i].id : i \in 1..Len(groups)}

IdsOfEntries(entries) == {entries[i].groupId : i \in 1..Len(entries)}

\* the cluster ids that occur anywhere: in memory, in the files, in calls under way
KnownIds ==
    IdsOfGroups(faceGroups)
    \cup (IF CanParse(groupsFile) THEN IdsOfGroups(Parse(groupsFile)) ELSE {})
    \cup UNION {IF CanParse(faceData[k]) THEN IdsOfEntries(Parse(faceData[k]).groups) ELSE {}
                : k \in RecordKeys}
    \cup UNION {IdsOfEntries(calls[c].groups) : c \in Callers}

\* `face_${Date.now()}_${Math.random().toString(36).substr(2, 9)}` (line 200): nothing
\* compares the string with the ids in use, so it can be any of them; ids are
\* opaque, so one id that occurs nowhere stands for every string not in use.
NewGroupIds ==
    LET unused == GroupIds \ KnownIds
    IN  KnownIds \cup (IF unused = {} THEN {}
                       ELSE {CHOOSE id \in unused : \A other \in unused : id <= other})

\* one iteration of `for (const face of detectionResult.faces)` (lines 180-207)
MatchNextFace(c) ==
    /\ running = c
    /\ calls[c].pc = "matching"
    /\ calls[c].idx <= Len(calls[c].faces)
    /\ \E newId \in NewGroupIds :
         LET step == AssignFace(faceGroups, calls[c].filename,
                                calls[c].faces[calls[c].idx], newId)
         IN  /\ faceGroups' = step.faceGroups
             /\ calls' = [calls EXCEPT ![c].groups = PushEntry(@, step.entry),
                                       ![c].idx = @ + 1]
    /\ response' = NoResponse
    /\ UNCHANGED <<groupsFile, faceData, modelsLoaded, modelsOnDisk, batch, running,
                   started, firstWritten>>

\* the record built at lines 172 and 210-217
ImageFaceRecord(filename, faces, groups) ==
    [filename |-> filename,
     faces |-> [i \in 1..Len(faces) |-> [box |-> faces[i].box, embedding |-> faces[i].embedding]],
     groups |-> groups]

\* saveFaceGroups(): the text written to face-groups.json
saveFaceGroups(groups) == Stringify(groups)

\* the early return of line 174 forgotten
GroupsFileAlwaysSaved(faces, file, groups) == saveFaceGroups(groups)

\* a processImage that never calls saveFaceGroups()
GroupsFileKept(faces, file, groups) == file

\* face-groups.json after a call that wrote its record: the early return of
\* line 174 skips saveFaceGroups()
GroupsFileAfter(faces, file, groups) ==
    IF Len(faces) = 0 THEN file ELSE saveFaceGroups(groups)

\* what a failed write of face-groups.json can leave behind: the old file, or
\* a truncated one
AfterFailedWrite(old) == {old, Corrupt}

\* a processImage that goes back to the clusters on disk when its record cannot
\* be written
SaveAndReturnRollsBack(c) ==
    /\ running = c
    /\ calls[c].pc = "matching"
    /\ calls[c].idx > Len(calls[c].faces)
    /\ LET filename == calls[c].filename
           key == RecordKey(filename)
           result == ImageFaceRecord(filename, calls[c].faces, calls[c].groups)
       IN  \/ \* both files are written
              /\ faceData' = [faceData EXCEPT ![key] = Stringify(result)]
              /\ UNCHANGED faceGroups
              /\ groupsFile' = GroupsFileAfter(calls[c].faces, groupsFile, faceGroups)
              /\ firstWritten' = IF firstWritten[key] = Missing
                                 THEN [firstWritten EXCEPT ![key] = Stringify(result)]
                                 ELSE firstWritten
              /\ calls' = [calls EXCEPT ![c] = CallAfter(c, filename, Returned(result))]
              /\ response' = ResponseAfter(c, filename, Returned(result))
           \/ \* writing the record throws before anything is written (EACCES, ENOSPC)
              /\ UNCHANGED faceData
              /\ calls' = [calls EXCEPT ![c] = CallAfter(c, filename, Thrown("write failed"))]
              /\ response' = ResponseAfter(c, filename, Thrown("write failed"))
              /\ UNCHANGED <<groupsFile, firstWritten>>
              /\ faceGroups' = loadFaceGroups(groupsFile)
           \/ \* saveFaceGroups() throws
              /\ Len(calls[c].faces) > 0
              /\ faceData' = [faceData EXCEPT ![key] = Stringify(result)]
              /\ UNCHANGED faceGroups
              /\ groupsFile' \in AfterFailedWrite(groupsFile)
              /\ UNCHANGED firstWritten
              /\ calls' = [calls EXCEPT ![c] = CallAfter(c, filename, Thrown("write failed"))]
              /\ response' = ResponseAfter(c, filename, Thrown("write failed"))
    /\ running' = None
    /\ UNCHANGED <<modelsLoaded, modelsOnDisk, batch, started>>

\* the end of processImage: lines 170-175 for no face, lines 209-224 otherwise
SaveAndReturn(c) ==
    /\ running = c
    /\ calls[c].pc = "matching"
    /\ calls[c].idx > Len(calls[c].faces)
    /\ LET filename == calls[c].filename
           key == RecordKey(filename)
           result == ImageFaceRecord(filename, calls[c].faces, calls[c].groups)
       IN  \/ \* both files are written
              /\ faceData' = [faceData EXCEPT ![key] = Stringify(result)]
              /\ groupsFile' = GroupsFileAfter(calls[c].faces, groupsFile, faceGroups)
              /\ firstWritten' = IF firstWritten[key] = Missing
                                 THEN [firstWritten EXCEPT ![key] = Stringify(result)]
                                 ELSE firstWritten
              /\ calls' = [calls EXCEPT ![c] = CallAfter(c, filename, Returned(result))]
              /\ response' = ResponseAfter(c, filename, Returned(result))
           \/ \* writing the record throws before anything is written (EACCES, ENOSPC)
              /\ UNCHANGED faceData
              /\ calls' = [calls EXCEPT ![c] = CallAfter(c, filename, Thrown("write failed"))]
              /\ response' = ResponseAfter(c, filename, Thrown("write failed"))
              /\ UNCHANGED <<groupsFile, firstWritten>>
           \/ \* saveFaceGroups() throws
              /\ Len(calls[c].faces) > 0
              /\ faceData' = [faceData EXCEPT ![key] = Stringify(result)]
              /\ groupsFile' \in AfterFailedWrite(groupsFile)
              /\ UNCHANGED firstWritten
              /\ calls' = [calls EXCEPT ![c] = CallAfter(c, filename, Thrown("write failed"))]
              /\ response' = ResponseAfter(c, filename, Thrown("write failed"))
    /\ running' = None
    /\ UNCHANGED <<faceGroups, modelsLoaded, modelsOnDisk, batch, started>>

BatchFilenames == UNION {[1..n -> BatchInputs] : n \in 0..MaxBatch}

\* POST /api/process-faces: processImages(filenames, callback) up to its first await
ProcessFacesRequest(filenames) ==
    /\ running = None
    /\ started + Len(filenames) <= MaxStarts
    /\ batch.pc = "idle"
    /\ IF Len(filenames) = 0
       THEN /\ UNCHANGED <<batch, calls>>
       ELSE /\ batch' = [pc |-> "running", filenames |-> filenames, i |-> 1,
                         results |-> <<>>, progress |-> <<>>]
            /\ calls' = [calls EXCEPT !["batch"] = CallStarted("batch", filenames[1])]
    /\ started' = started + Len(filenames)
    /\ response' = [kind |-> "process-faces", count |-> Len(filenames)]
    /\ UNCHANGED <<faceGroups, groupsFile, faceData, modelsLoaded, modelsOnDisk,
                   running, firstWritten>>

\* a processImages loop without the await: it goes on to the next filename
\* while the call for the current one is still under way
ProcessImagesNoAwait ==
    /\ running = None
    /\ batch.pc = "running"
    /\ calls["batch"].pc \in {"done", "loading", "detecting"}
    /\ LET i == batch.i
           total == Len(batch.filenames)
           results == Append(batch.results, [filename |-> batch.filenames[i], error |-> "pending"])
       IN  IF i < total
           THEN /\ batch' = [batch EXCEPT !.i = i + 1, !.results = results]
                /\ calls' = [calls EXCEPT !["batch"] = CallStarted("batch", batch.filenames[i + 1])]
                /\ response' = NoResponse
           ELSE /\ batch' = NoBatch
                /\ calls' = [calls EXCEPT !["batch"] = IdleCall]
                /\ response' = [kind |-> "batch-done", results |-> results,
                                progress |-> batch.progress]
    /\ UNCHANGED <<faceGroups, groupsFile, faceData, modelsLoaded, modelsOnDisk,
                   running, started, firstWritten>>

\* processImages resumes from `await this.processImage(filenames[i])`: the rest of
\* iteration i and the start of iteration i + 1, or the return (lines 286-300).
\* The server keeps nothing of a finished batch; `response` shows what it returned.
ProcessImagesNext ==
    /\ running = None
    /\ batch.pc = "running"
    /\ calls["batch"].pc = "done"
    /\ LET i == batch.i
           total == Len(batch.filenames)
           filename == batch.filenames[i]
           outcome == calls["batch"].result
           results == IF outcome.kind = "ok"
                      THEN Append(batch.results, outcome.value)
                      ELSE Append(batch.results, [filename |-> filename, error |-> outcome.message])
           progress == IF outcome.kind = "ok"
                       THEN Append(batch.progress, <<i, total, filename>>)
                       ELSE batch.progress
       IN  IF i < total
           THEN /\ batch' = [batch EXCEPT !.i = i + 1, !.results = results,
                                          !.progress = progress]
                /\ calls' = [calls EXCEPT !["batch"] = CallStarted("batch", batch.filenames[i + 1])]
                /\ response' = NoResponse
           ELSE /\ batch' = NoBatch
                /\ calls' = [calls EXCEPT !["batch"] = IdleCall]
                /\ response' = [kind |-> "batch-done", results |-> results,
                                progress |-> progress]
    /\ UNCHANGED <<faceGroups, groupsFile, faceData, modelsLoaded, modelsOnDisk,
                   running, started, firstWritten>>

\* GET /api/face-groups
GetFaceGroupsRequest ==
    /\ running = None
    /\ response' = [kind |-> "face-groups", groupId |-> NoId,
                    value |-> getFaceGroups(faceGroups)]
    /\ UNCHANGED <<faceGroups, groupsFile, faceData, modelsLoaded, modelsOnDisk,
                   calls, batch, running, started, firstWritten>>

\* a getGroupImages that creates the cluster it does not find
GetOrCreateGroupImages(groupId) ==
    /\ running = None
    /\ response' = [kind |-> "face-group", groupId |-> groupId,
                    value |-> getGroupImages(faceGroups, groupId)]
    /\ faceGroups' = IF MapHas(faceGroups, groupId) THEN faceGroups
                     ELSE MapSet(faceGroups, groupId, EZ, <<>>)
    /\ UNCHANGED <<groupsFile, faceData, modelsLoaded, modelsOnDisk,
                   calls, batch, running, started, firstWritten>>

\* GET /api/face-group/:groupId
GetGroupImagesRequest(groupId) ==
    /\ running = None
    /\ response' = [kind |-> "face-group", groupId |-> groupId,
                    value |-> getGroupImages(faceGroups, groupId)]
    /\ UNCHANGED <<faceGroups, groupsFile, faceData, modelsLoaded, modelsOnDisk,
                   calls, batch, running, started, firstWritten>>

\* a direct call of matchFace(embedding), as a test of the class makes it
MatchFaceQuery(embedding) ==
    /\ running = None
    /\ response' = [kind |-> "match-face", embedding |-> embedding,
                    value |-> matchFace(embedding, faceGroups)]
    /\ UNCHANGED <<faceGroups, groupsFile, faceData, modelsLoaded, modelsOnDisk,
                   calls, batch, running, started, firstWritten>>

\* the server process is restarted: the constructor runs again (lines 11-25)
Restart ==
    /\ running = None
    /\ faceGroups' = loadFaceGroups(groupsFile)
    /\ modelsLoaded' = FALSE
    /\ calls' = [c \in Callers |-> IdleCall]
    /\ batch' = NoBatch
    /\ response' = NoResponse
    /\ UNCHANGED <<groupsFile, faceData, modelsOnDisk, running, started, firstWritten>>

\* the steps that process images
Next ==
    \/ InstallModels
    \/ \E c \in Requests, filename \in Filenames : DetectFacesRequest(c, filename)
    \/ \E filenames \in BatchFilenames : ProcessFacesRequest(filenames)
    \/ \E c \in Callers : LoadModelsDone(c)
    \/ \E c \in Callers : DetectFacesDone(c)
    \/ \E c \in Callers : MatchNextFace(c)
    \/ \E c \in Callers : SaveAndReturn(c)
    \/ ProcessImagesNext
    \/ Restart

Spec == Init /\ [][Next]_vars

\* the same in a run of at most MaxQueryStarts filenames, with the read requests
\* between the steps
NextWithQueries ==
    \/ Next /\ started' <= MaxQueryStarts
    \/ GetFaceGroupsRequest
    \/ \E groupId \in GroupIds : GetGroupImagesRequest(groupId)
    \/ \E embedding \in QueryEmbeddings : MatchFaceQuery(embedding)

SpecQueries == Init /\ [][NextWithQueries]_vars

\* POST /api/detect-faces/:filename, one request at a time or a second request
\* for the file of the request under way
OverlappingRequest(c, filename) ==
    /\ c = "req1" => calls["req2"].pc = "idle"
    /\ c = "req2" => calls["req1"].filename = filename
    /\ DetectFacesRequest(c, filename)

\* requests for single files, any of them doubled by a second request for the
\* same file while the first is under way
NextOverlap ==
    \/ InstallModels
    \/ \E c \in Requests, filename \in OverlapInputs : OverlappingRequest(c, filename)
    \/ \E c \in Callers : LoadModelsDone(c)
    \/ \E c \in Callers : DetectFacesDone(c)
    \/ \E c \in Callers : MatchNextFace(c)
    \/ \E c \in Callers : SaveAndReturn(c)

SpecOverlap == Init /\ [][NextOverlap]_vars

\* a direct call of cosineSimilarity(embedding1, embedding2), as a test of the
\* class makes it
CosineSimilarityQuery(embedding1, embedding2) ==
    /\ running = None
    /\ response' = [kind |-> "cosine", embedding1 |-> embedding1, embedding2 |-> embedding2,
                    value |-> cosineSimilarityRounded(embedding1, embedding2)]
    /\ UNCHANGED <<faceGroups, groupsFile, faceData, modelsLoaded, modelsOnDisk,
                   calls, batch, running, started, firstWritten>>

NextCosine == \E embedding1 \in Vectors, embedding2 \in Vectors :
                 CosineSimilarityQuery(embedding1, embedding2)

SpecCosine == Init /\ [][NextCosine]_vars

\* processImages resumes from `await this.processImage(filenames[i])` with a
\* record, pushes it (line 289) and calls progressCallback, which throws: the
\* catch of line 294 pushes an error entry for the same filename, and the loop
\* goes on
ProcessImagesCallbackThrows ==
    /\ running = None
    /\ batch.pc = "running"
    /\ calls["batch"].pc = "done"
    /\ calls["batch"].result.kind = "ok"
    /\ LET i == batch.i
           total == Len(batch.filenames)
           filename == batch.filenames[i]
           outcome == calls["batch"].result
           results == Append(Append(batch.results, outcome.value),
                             [filename |-> filename, error |-> "callback failed"])
           progress == Append(batch.progress, <<i, total, filename>>)
       IN  IF i < total
           THEN /\ batch' = [batch EXCEPT !.i = i + 1, !.results = results,
                                          !.progress = progress]
                /\ calls' = [calls EXCEPT !["batch"] = CallStarted("batch", batch.filenames[i + 1])]
                /\ response' = NoResponse
           ELSE /\ batch' = NoBatch
                /\ calls' = [calls EXCEPT !["batch"] = IdleCall]
                /\ response' = [kind |-> "batch-done", results |-> results,
                                progress |-> progress]
    /\ UNCHANGED <<faceGroups, groupsFile, faceData, modelsLoaded, modelsOnDisk,
                   running, started, firstWritten>>

\* processImages(filenames, progressCallback) with a callback that can throw
NextCallback ==
    \/ InstallModels
    \/ \E filenames \in BatchFilenames : ProcessFacesRequest(filenames)
    \/ \E c \in Callers : LoadModelsDone(c)
    \/ \E c \in Callers : DetectFacesDone(c)
    \/ \E c \in Callers : MatchNextFace(c)
    \/ \E c \in Callers : SaveAndReturn(c)
    \/ ProcessImagesNext
    \/ ProcessImagesCallbackThrows

SpecCallback == Init /\ [][NextCallback]_vars

-----------------------------------------------------------------------------
(* Vocabulary of the properties *)

PointSix == <<3, 5>>

\* what caller c's processImage call returned or threw, once it is over
LastResult(c) ==
    IF c = "batch" THEN calls[c].result
    ELSE IF response.kind = "detect-faces"
         THEN (IF response.caller = c THEN response.result ELSE NoResult)
         ELSE NoResult

\* this step starts the processImage(filename) call of request c
StartsRequest(c, filename) ==
    /\ running = None
    /\ calls[c].pc = "idle"
    /\ started' = started + 1
    /\ \/ calls'[c].pc \in {"loading", "detecting"} /\ calls'[c].filename = filename
       \/ /\ response'.kind = "detect-faces"
          /\ response'.caller = c
          /\ response'.filename = filename

\* this step is one iteration of the face loop of caller c
HandlesFace(c) ==
    /\ running = c
    /\ calls[c].pc = "matching"
    /\ calls[c].idx <= Len(calls[c].faces)
    /\ calls'[c].idx = calls[c].idx + 1

\* this step ends the processImage call of caller c after detection
Finishes(c) ==
    /\ running = c
    /\ calls[c].pc = "matching"
    /\ running' = None

CurrentFace(c) == calls[c].faces[calls[c].idx]

\* the cluster ids of a list of group entries, in order
GroupIdsOf(groups) == [i \in 1..Len(groups) |-> groups[i].groupId]

NonZero(e) == \E i \in 1..Len(e) : e[i] # 0

SimilarityTo(e, groups, i) == cosineSimilarity(e, groups[i].referenceEmbedding)

\* some cluster is more than 0.6 similar to e
Matches(groups, e) ==
    \E i \in 1..Len(groups) : Greater(SimilarityTo(e, groups, i), PointSix)

\* the clusters whose reference embedding is e
RefIs(groups, e) == {i \in 1..Len(groups) : groups[i].referenceEmbedding = e}

KeepsImages(old, new) ==
    \A i \in 1..Len(old) : Includes(new, old[i])

-----------------------------------------------------------------------------
(* C1: once a processImage(f) call has returned its record, every later     *)
(* processImage(f) call returns exactly the record the first call wrote,    *)
(* without running the detector and without changing the clusters in        *)
(* memory, face-groups.json or any record file.                             *)
IdempotentProcessImage ==
    [][\A c \in Requests, f \in Filenames :
         LET first == firstWritten[RecordKey(f)]
         IN  (/\ CanParse(first)
              /\ Parse(first).filename = f
              /\ StartsRequest(c, f))
             => /\ calls'[c].pc = "idle"
                /\ response'.result = Returned(Parse(first))
                /\ UNCHANGED <<faceGroups, groupsFile, faceData>>]_vars

(* C2: at most one processImage call is in progress at any time, whichever  *)
(* entry point started it.                                                  *)
SerializedCalls == Cardinality({c \in Callers : InProgress(c)}) <= 1

\* what handling a face of embedding e must do for C3: a cluster whose
\* reference is e takes the filename and no cluster is created; where nothing
\* matches e, one cluster of reference e appears, holding the filename
OneClusterPerEmbedding(c) ==
    LET f == calls[c].filename
        e == CurrentFace(c).embedding
    IN  /\ RefIs(faceGroups, e) # {} =>
              /\ Len(faceGroups') = Len(faceGroups)
              /\ RefIs(faceGroups', e) = RefIs(faceGroups, e)
              /\ Cardinality(RefIs(faceGroups', e)) = 1
              /\ \A i \in RefIs(faceGroups', e) :
                    /\ Includes(faceGroups'[i].images, f)
                    /\ KeepsImages(faceGroups[i].images, faceGroups'[i].images)
        /\ ~Matches(faceGroups, e) =>
              /\ Cardinality(RefIs(faceGroups', e)) = 1
              /\ \A i \in RefIs(faceGroups', e) : faceGroups'[i].images = <<f>>

\* between the arrival of c's detection result and the end of c's call, the
\* cluster map changes only in c's own loop
OwnMutationsOnly(c) ==
    (calls[c].pc = "matching" /\ faceGroups' # faceGroups)
        => calls'[c].idx = calls[c].idx + 1

(* C3, as claimed: for any embedding, two calls on two files whose face has *)
(* that embedding create one cluster between them, holding both filenames,  *)
(* and no other call changes the clusters inside a call's match-and-update. *)
NoDuplicateClusters ==
    [][\A c \in Callers :
         /\ HandlesFace(c) => OneClusterPerEmbedding(c)
         /\ OwnMutationsOnly(c)]_vars

(* C3, amended: the same for every embedding of non-zero norm.              *)
NoDuplicateClustersNonZero ==
    [][\A c \in Callers :
         /\ (HandlesFace(c) /\ NonZero(CurrentFace(c).embedding))
                => OneClusterPerEmbedding(c)
         /\ OwnMutationsOnly(c)]_vars

\* FileG's face has just joined the one cluster that FileC's face created
TwoFilesOneCluster ==
    \E c \in Callers :
        /\ running = c
        /\ calls[c].filename = FileG
        /\ calls[c].idx = 2
        /\ Cardinality(RefIs(faceGroups, E1)) = 1
        /\ \A i \in RefIs(faceGroups, E1) : faceGroups[i].images = <<FileC, FileG>>
        /\ calls[c].groups[1] = [groupId |-> faceGroups[1].id, similarity |-> One]
        /\ Len(faceGroups) = 1

(* C4: the record file of a filename is written at most once, and its       *)
(* content never changes after that first write.                            *)
RecordWrittenOnce ==
    [][\A k \in RecordKeys :
         faceData[k] # Missing =>
            /\ faceData'[k] = faceData[k]
            /\ \A c \in Callers :
                  ~(/\ Finishes(c)
                    /\ RecordKey(calls[c].filename) = k
                    /\ LastResult(c)'.kind = "ok")]_vars

EmptyRecord(filename) == [filename |-> filename, faces |-> <<>>, groups |-> <<>>]

(* C5: when the detector reports no faces for an unprocessed filename, the  *)
(* call leaves the clusters in memory and face-groups.json as they were,    *)
(* and the record it writes and returns has that filename and empty faces   *)
(* and groups.                                                              *)
ZeroFaceImage ==
    [][\A c \in Callers :
         (calls[c].pc = "matching" /\ Len(calls[c].faces) = 0) =>
            /\ Finishes(c)
            /\ UNCHANGED <<faceGroups, groupsFile>>
            /\ LastResult(c)'.kind = "ok" =>
                  /\ LastResult(c)'.value = EmptyRecord(calls[c].filename)
                  /\ faceData'[RecordKey(calls[c].filename)]
                        = Stringify(EmptyRecord(calls[c].filename))
            /\ LastResult(c)'.kind = "error" => UNCHANGED faceData]_vars

\* FileD, which has no face, was processed after a cluster existed on disk
ZeroFaceReturned ==
    /\ response.kind = "detect-faces"
    /\ response.filename = FileD
    /\ response.result = Returned(EmptyRecord(FileD))
    /\ faceData[RecordKey(FileD)] = Stringify(EmptyRecord(FileD))
    /\ Len(faceGroups) > 0
    /\ groupsFile = saveFaceGroups(faceGroups)

\* the entry that caller c's loop emits in this step
EmittedEntry(c) == calls'[c].groups[calls[c].idx]

\* cluster i has the highest similarity to e of all clusters
IsBest(groups, e, i) ==
    \A j \in 1..Len(groups) : ~Greater(SimilarityTo(e, groups, j), SimilarityTo(e, groups, i))

(* C6: when processImage handles a face that is at most 0.6 similar to      *)
(* every existing cluster (exactly 0.6 and no cluster at all included), one *)
(* cluster is created with the face's embedding as reference and exactly    *)
(* the filename as images, every cluster under another id stays as it was,  *)
(* and the entry emitted for the face is (the new cluster's id, 1.0).       *)
NewClusterAtOrBelowThreshold ==
    [][\A c \in Callers :
         (HandlesFace(c) /\ ~Matches(faceGroups, CurrentFace(c).embedding)) =>
            LET id == EmittedEntry(c).groupId
                created == {i \in 1..Len(faceGroups') : faceGroups'[i].id = id}
            IN  /\ EmittedEntry(c).similarity = One
                /\ Cardinality(created) = 1
                /\ \A i \in created :
                      /\ faceGroups'[i].referenceEmbedding = CurrentFace(c).embedding
                      /\ faceGroups'[i].images = <<calls[c].filename>>
                /\ \A i \in 1..Len(faceGroups) :
                      faceGroups[i].id # id => faceGroups'[i] = faceGroups[i]
                /\ Len(faceGroups') = IF MapHas(faceGroups, id) THEN Len(faceGroups)
                                      ELSE Len(faceGroups) + 1]_vars

\* FileE's second face is exactly 0.6 similar to the one cluster there was
\* and has become a cluster of its own
NewClusterAtThreshold ==
    \E c \in Callers :
        /\ running = c
        /\ calls[c].filename = FileE
        /\ calls[c].idx = 3
        /\ Len(faceGroups) = 2
        /\ faceGroups[1].referenceEmbedding = E1
        /\ cosineSimilarity(E2, E1) = PointSix
        /\ faceGroups[2] = [id |-> calls[c].groups[2].groupId,
                            referenceEmbedding |-> E2, images |-> <<FileE>>]
        /\ calls[c].groups[2].similarity = One

(* C7: when processImage handles a face whose best similarity to a cluster  *)
(* is above 0.6, the filename is added to that cluster's images unless it   *)
(* is there already, the entry emitted is (that cluster's id, that          *)
(* similarity), the number of clusters stays, and no other cluster changes. *)
MatchAboveThreshold ==
    [][\A c \in Callers :
         (HandlesFace(c) /\ Matches(faceGroups, CurrentFace(c).embedding)) =>
            LET e == CurrentFace(c).embedding
                f == calls[c].filename
            IN  /\ Len(faceGroups') = Len(faceGroups)
                /\ \E b \in 1..Len(faceGroups) :
                      /\ IsBest(faceGroups, e, b)
                      /\ EmittedEntry(c) = [groupId |-> faceGroups[b].id,
                                            similarity |-> SimilarityTo(e, faceGroups, b)]
                      /\ faceGroups'[b].id = faceGroups[b].id
                      /\ faceGroups'[b].referenceEmbedding = faceGroups[b].referenceEmbedding
                      /\ faceGroups'[b].images =
                            IF \E n \in 1..Len(faceGroups[b].images) : faceGroups[b].images[n] = f
                            THEN faceGroups[b].images
                            ELSE faceGroups[b].images \o <<f>>
                      /\ \A i \in 1..Len(faceGroups) : i # b => faceGroups'[i] = faceGroups[i]]_vars

\* FileH's second face has matched, at 0.8, the cluster its first face created:
\* the filename was in the images already
MatchedOwnCluster ==
    \E c \in Callers :
        /\ running = c
        /\ calls[c].filename = FileH
        /\ calls[c].idx = 3
        /\ Len(faceGroups) = 1
        /\ faceGroups[1].referenceEmbedding = E3
        /\ faceGroups[1].images = <<FileH>>
        /\ calls[c].groups[2] = [groupId |-> faceGroups[1].id, similarity |-> <<4, 5>>]

(* C8: for every embedding and every cluster set, matchFace returns no      *)
(* match exactly when no cluster is more than 0.6 similar; otherwise it     *)
(* returns a cluster of maximal similarity with that similarity, the first  *)
(* in insertion order of those that share the maximum.                      *)
MatchFaceReturnsBest ==
    \A e \in Embeddings :
        LET m == matchFace(e, faceGroups)
            sims == [j \in 1..Len(faceGroups) |-> SimilarityTo(e, faceGroups, j)]
            above == \E j \in 1..Len(faceGroups) : Greater(sims[j], PointSix)
        IN  /\ m = NoMatch <=> ~above
            /\ above =>
                  \E b \in 1..Len(faceGroups) :
                      /\ \A j \in 1..Len(faceGroups) : ~Greater(sims[j], sims[b])
                      /\ \A j \in 1..(b - 1) : sims[j] # sims[b]
                      /\ m = [faceId |-> faceGroups[b].id, similarity |-> sims[b]]

\* matchFace was asked about an embedding equally similar (0.8) to both clusters
\* and answered with the first of them
TieGoesToFirst ==
    /\ response.kind = "match-face"
    /\ response.embedding = E1
    /\ Len(faceGroups) = 2
    /\ faceGroups[1].referenceEmbedding = E3
    /\ faceGroups[2].referenceEmbedding = E4
    /\ SimilarityTo(E1, faceGroups, 1) = SimilarityTo(E1, faceGroups, 2)
    /\ response.value = [faceId |-> faceGroups[1].id, similarity |-> <<4, 5>>]

\* this step is a read of the given kind
Reads(kind) == response'.kind = kind

(* C9: matchFace, getFaceGroups and getGroupImages leave the clusters in    *)
(* memory, face-groups.json and every record file unchanged, and a read     *)
(* repeated with the same argument right after itself gives the same answer.*)
ReadsHaveNoSideEffects ==
    [][/\ (Reads("face-groups") \/ Reads("face-group") \/ Reads("match-face"))
            => UNCHANGED <<faceGroups, groupsFile, faceData>>
       /\ (Reads("face-groups") /\ response.kind = "face-groups")
            => response'.value = response.value
       /\ (Reads("face-group") /\ response.kind = "face-group")
            => (response'.groupId = response.groupId => response'.value = response.value)
       /\ (Reads("match-face") /\ response.kind = "match-face")
            => (response'.embedding = response.embedding
                    => response'.value = response.value)]_vars

\* the images of a cluster of two files were read while the store was saved
ReadTwoImages ==
    /\ response.kind = "face-group"
    /\ response.value = <<FileC, FileG>>
    /\ getGroupImages(faceGroups, response.groupId) = response.value
    /\ groupsFile = saveFaceGroups(faceGroups)

\* a record has one group entry per face
OnePerFace(record) == Len(record.groups) = Len(record.faces)

\* entry is an assignment of a face of embedding e of file f to a cluster of `groups`
IsAssignment(entry, e, f, groups) ==
    \E n \in 1..Len(groups) :
        /\ groups[n].id = entry.groupId
        /\ Includes(groups[n].images, f)
        /\ \/ /\ entry.similarity = SimilarityTo(e, groups, n)
              /\ Greater(entry.similarity, PointSix)
           \/ /\ entry.similarity = One
              /\ groups[n].referenceEmbedding = e
              /\ groups[n].images = <<f>>

(* C10: every record that processImage returns or persists has as many      *)
(* group entries as faces, and entry i is the assignment made for face i,   *)
(* in the order of detection.                                               *)
OneEntryPerFaceInOrder ==
    /\ [](/\ \A k \in RecordKeys : CanParse(faceData[k]) => OnePerFace(Parse(faceData[k]))
          /\ \A c \in Callers : LastResult(c).kind = "ok" => OnePerFace(LastResult(c).value)
          /\ \A c \in Callers :
                calls[c].pc = "matching" => Len(calls[c].groups) = calls[c].idx - 1)
    /\ [][\A c \in Callers :
            /\ HandlesFace(c) =>
                  /\ Len(calls'[c].groups) = calls[c].idx
                  /\ \A j \in 1..(calls[c].idx - 1) : calls'[c].groups[j] = calls[c].groups[j]
                  /\ IsAssignment(EmittedEntry(c), CurrentFace(c).embedding,
                                  calls[c].filename, faceGroups')
            /\ (Finishes(c) /\ LastResult(c)'.kind = "ok") =>
                  /\ LastResult(c)'.value.groups = calls[c].groups
                  /\ [i \in 1..Len(calls[c].faces) |-> LastResult(c)'.value.faces[i].embedding]
                        = [i \in 1..Len(calls[c].faces) |-> calls[c].faces[i].embedding]
                  /\ faceData'[RecordKey(calls[c].filename)] = Stringify(LastResult(c)'.value)]_vars

\* FileH's two faces matched two different clusters that FileE had created,
\* and its record lists them in the order of the faces
TwoFacesTwoClusters ==
    /\ CanParse(faceData[RecordKey(FileH)])
    /\ LET record == Parse(faceData[RecordKey(FileH)])
       IN  /\ Len(record.faces) = 2
           /\ record.faces[1].embedding = E3
           /\ record.faces[2].embedding = E1
           /\ Len(record.groups) = 2
           /\ record.groups[1].similarity = <<24, 25>>
           /\ record.groups[2].similarity = <<4, 5>>
           /\ record.groups[1].groupId # record.groups[2].groupId
           /\ response.kind = "detect-faces"
           /\ response.result = Returned(record)

-----------------------------------------------------------------------------
\* this step creates a cluster for the face that caller c's loop handles
CreatesCluster(c) ==
    HandlesFace(c) /\ ~Matches(faceGroups, CurrentFace(c).embedding)

\* the reference embedding of the cluster with the given id
ReferenceOf(groups, id) ==
    {groups[i].referenceEmbedding : i \in {j \in 1..Len(groups) : groups[j].id = id}}

(* C11: a cluster's reference embedding is the embedding of the face that   *)
(* created it and never changes afterwards: in every step of processImage   *)
(* or processImages, a cluster id that is in the cluster set before and     *)
(* after the step has the same reference embedding, and a cluster id that   *)
(* appears has the embedding of the face being handled.                     *)
ReferenceFixedAtCreation ==
    [][(\E c \in Callers : running = c) =>
          \A id \in GroupIds :
             /\ (MapHas(faceGroups, id) /\ MapHas(faceGroups', id))
                   => ReferenceOf(faceGroups', id) = ReferenceOf(faceGroups, id)
             /\ (~MapHas(faceGroups, id) /\ MapHas(faceGroups', id))
                   => \E c \in Callers :
                         /\ CreatesCluster(c)
                         /\ ReferenceOf(faceGroups', id) = {CurrentFace(c).embedding}]_vars

\* every cluster has a reference embedding of the detector's length and at
\* least one image
CompleteCluster(group) ==
    /\ group.referenceEmbedding \in Embeddings
    /\ Len(group.images) >= 1

(* C12: in every reachable state of a store that started empty, also in the *)
(* states that a read can observe while a processImage call is under way,   *)
(* every cluster has a reference embedding and at least one image.          *)
ClustersCompleteAndNonEmpty ==
    /\ \A i \in 1..Len(faceGroups) : CompleteCluster(faceGroups[i])
    /\ CanParse(groupsFile) =>
          \A i \in 1..Len(Parse(groupsFile)) : CompleteCluster(Parse(groupsFile)[i])
    /\ \A i \in 1..Len(getFaceGroups(faceGroups)) :
          getFaceGroups(faceGroups)[i].imageCount >= 1
    /\ \A id \in IdsOfGroups(faceGroups) : Len(getGroupImages(faceGroups, id)) >= 1

\* two clusters, one of them with two images, while one call awaits its
\* detection result and nothing holds the thread
ObservableDuringCall ==
    /\ running = None
    /\ \E c \in Callers : calls[c].pc = "detecting"
    /\ Len(faceGroups) = 2
    /\ \E i \in 1..Len(faceGroups) : Len(faceGroups[i].images) = 2

NoRepeat(images) ==
    \A i, j \in 1..Len(images) : images[i] = images[j] => i = j

(* C13: in every reachable state of a store that started empty, no          *)
(* cluster's images hold a filename twice, in memory or in face-groups.json.*)
NoDuplicateFilenames ==
    /\ \A i \in 1..Len(faceGroups) : NoRepeat(faceGroups[i].images)
    /\ CanParse(groupsFile) =>
          \A i \in 1..Len(Parse(groupsFile)) : NoRepeat(Parse(groupsFile)[i].images)

\* two overlapping calls for FileC have both handled its face: one cluster,
\* the filename once
SameFileTwiceOneImage ==
    /\ calls["req1"].pc = "idle"
    /\ calls["req2"].filename = FileC
    /\ calls["req2"].pc = "matching"
    /\ calls["req2"].idx = 2
    /\ CanParse(faceData[RecordKey(FileC)])
    /\ Len(faceGroups) = 1
    /\ faceGroups[1].images = <<FileC>>

(* C14: every id generated for a new cluster differs from every id in the   *)
(* cluster set, so creating a cluster never replaces an existing one.       *)
UniqueClusterIds ==
    [][\A c \in Callers :
         CreatesCluster(c) =>
            /\ ~MapHas(faceGroups, EmittedEntry(c).groupId)
            /\ Len(faceGroups') = Len(faceGroups) + 1
            /\ \A i \in 1..Len(faceGroups) : faceGroups'[i] = faceGroups[i]]_vars

(* C15: the filename is a unique key for records: the record that           *)
(* processImage(f) returns has filename f and the faces detected in f,      *)
(* whatever was processed before.                                           *)
FilenameIsUniqueKey ==
    \A c \in Callers :
        LastResult(c).kind = "ok" =>
            LET f == IF c = "batch" THEN calls[c].filename ELSE response.filename
            IN  /\ LastResult(c).value.filename = f
                /\ LastResult(c).value.faces = Detections(f)

(* C16: getGroupImages of an id that is not in the cluster set is the empty *)
(* list, without an error; of a known id it is that cluster's images.       *)
GroupImagesOfUnknownIdEmpty ==
    response.kind = "face-group" =>
        /\ (\A i \in 1..Len(faceGroups) : faceGroups[i].id # response.groupId)
              => response.value = <<>>
        /\ \A i \in 1..Len(faceGroups) :
              faceGroups[i].id = response.groupId => response.value = faceGroups[i].images

\* an id that no cluster has was asked for while there were clusters
UnknownIdAsked ==
    /\ response.kind = "face-group"
    /\ Len(faceGroups) >= 1
    /\ \A i \in 1..Len(faceGroups) : faceGroups[i].id # response.groupId
    /\ response.value = <<>>

\* this step of processImages takes in the outcome of the call for filename batch.i
CollectsResult ==
    /\ batch.pc = "running"
    /\ calls["batch"].pc = "done"
    /\ batch' # batch
    /\ batch'.pc = "running" \/ response'.kind = "batch-done"

ResultsAfter == IF batch'.pc = "running" THEN batch'.results ELSE response'.results

ProgressAfter == IF batch'.pc = "running" THEN batch'.progress ELSE response'.progress

IsErrorEntry(entry) == "error" \in DOMAIN entry

(* C17: processImages attempts every filename and returns one entry per     *)
(* input filename in input order, each either that image's record or an     *)
(* error entry naming that filename; a failure of one image ends nothing.   *)
BatchIsolationAndCompleteness ==
    [][CollectsResult =>
          LET i == batch.i
              f == batch.filenames[i]
              outcome == calls["batch"].result
          IN  /\ Len(ResultsAfter) = i
              /\ \A j \in 1..(i - 1) : ResultsAfter[j] = batch.results[j]
              /\ ResultsAfter[i].filename = f
              /\ outcome.kind = "ok" => ResultsAfter[i] = outcome.value
              /\ outcome.kind = "error" => IsErrorEntry(ResultsAfter[i])
              /\ ~IsErrorEntry(ResultsAfter[i]) => ResultsAfter[i].faces = Detections(f)
              /\ i < Len(batch.filenames) =>
                    /\ batch'.pc = "running"
                    /\ batch'.i = i + 1
                    /\ calls'["batch"].filename = batch.filenames[i + 1]
              /\ i = Len(batch.filenames) => response'.kind = "batch-done"]_vars

(* C18: processImages calls the progress callback once after each filename, *)
(* in input order, with (index from 1, total, filename), whether the image  *)
(* succeeded or failed.                                                     *)
ProgressAfterEachFilename ==
    [][CollectsResult =>
          ProgressAfter = Append(batch.progress,
                                 <<batch.i, Len(batch.filenames), batch.filenames[batch.i]>>)]_vars

\* the processImages call goes on in this step (the process is not restarted)
BatchGoesOn == batch.pc = "running" /\ batch'.pc = "running"

(* C19: inside one processImages call the filenames are processed one after *)
(* the other in the given order: the call for filename i+1 starts only when *)
(* the call for filename i has returned or failed, so the batch has at most *)
(* one processImage call, and one detector invocation, under way.           *)
BatchIsSequential ==
    /\ [](batch.pc = "running" =>
             /\ batch.i \in 1..Len(batch.filenames)
             /\ calls["batch"].pc # "idle"
             /\ calls["batch"].filename = batch.filenames[batch.i]
             /\ Len(batch.results) = batch.i - 1)
    /\ [](batch.pc = "idle" => calls["batch"].pc = "idle")
    /\ [][/\ (BatchGoesOn /\ batch'.i # batch.i) =>
                /\ calls["batch"].pc = "done"
                /\ batch'.i = batch.i + 1
                /\ batch'.filenames = batch.filenames
          /\ (BatchGoesOn /\ InProgress("batch")) =>
                /\ batch' = batch
                /\ calls'["batch"].filename = calls["batch"].filename
          /\ (batch.pc = "idle" /\ batch'.pc = "running") => batch'.i = 1]_vars

\* the second filename of a batch is being detected after the first was done
SecondOfBatchUnderWay ==
    /\ batch.pc = "running"
    /\ batch.filenames = <<FileA_B, FileC>>
    /\ batch.i = 2
    /\ Len(batch.results) = 1
    /\ ~IsErrorEntry(batch.results[1])
    /\ calls["batch"].pc = "detecting"
    /\ calls["batch"].filename = FileC

\* this step is the construction of the service on the storage as it is
Constructs ==
    /\ running = None
    /\ modelsLoaded' = FALSE
    /\ calls' = [c \in Callers |-> IdleCall]
    /\ batch' = NoBatch
    /\ response' = NoResponse
    /\ UNCHANGED <<groupsFile, faceData, modelsOnDisk, started>>

(* C20: constructing the store when face-groups.json is missing or cannot   *)
(* be parsed raises no error and gives an empty cluster set; processImage   *)
(* works after it, and its next write of the cluster set leaves a file that *)
(* parses to the cluster set in memory.                                     *)
LoadingIsNonFatal ==
    [][/\ (Constructs /\ ~CanParse(groupsFile)) => faceGroups' = <<>>
       /\ \A c \in Callers :
             (Finishes(c) /\ Len(calls[c].faces) > 0 /\ LastResult(c)'.kind = "ok") =>
                /\ CanParse(groupsFile')
                /\ Parse(groupsFile') = faceGroups
                /\ faceGroups' = faceGroups]_vars

\* the clusters of FileC were lost with the file; FileG was processed after
\* the restart and the file holds its cluster alone
RecoveredAfterLostFile ==
    /\ CanParse(faceData[RecordKey(FileC)])
    /\ Len(Parse(faceData[RecordKey(FileC)]).groups) = 1
    /\ CanParse(faceData[RecordKey(FileG)])
    /\ response.kind = "detect-faces"
    /\ response.filename = FileG
    /\ response.result.kind = "ok"
    /\ Len(faceGroups) = 1
    /\ faceGroups[1].images = <<FileG>>
    /\ faceGroups[1].id # Parse(faceData[RecordKey(FileC)]).groups[1].groupId
    /\ groupsFile = saveFaceGroups(faceGroups)

-----------------------------------------------------------------------------
(* C21: when a processImage call that handled at least one face returns its *)
(* record, face-groups.json holds the cluster set in memory (ids, reference *)
(* embeddings, images, order), and a store constructed on that storage      *)
(* loads exactly the cluster set the file holds.                            *)
PersistedTracksMemory ==
    [][/\ \A c \in Callers :
             (Finishes(c) /\ Len(calls[c].faces) > 0 /\ LastResult(c)'.kind = "ok") =>
                /\ groupsFile' = saveFaceGroups(faceGroups')
                /\ loadFaceGroups(groupsFile') = faceGroups'
       /\ (Constructs /\ CanParse(groupsFile)) => faceGroups' = Parse(groupsFile)]_vars

\* a restarted store holds the two clusters that the file holds; no models
\* are loaded yet, so the clusters come from the file
LoadedAfterRestart ==
    /\ modelsLoaded = FALSE
    /\ Len(faceGroups) = 2
    /\ groupsFile = saveFaceGroups(faceGroups)
    /\ \A c \in Callers : calls[c].pc = "idle"

\* this step ends caller c's call with the given error
FailsWith(c, messages) ==
    /\ calls[c].pc \in {"idle", "done", "loading", "detecting"}
    /\ calls'[c] # calls[c]
    /\ LastResult(c)'.kind = "error"
    /\ LastResult(c)'.message \in messages
    /\ c = "batch" => calls'[c].pc = "done" /\ (calls[c].pc = "done" => batch'.i = batch.i + 1)

(* C22: a processImage call that fails because the image does not exist or  *)
(* because detection fails raises the error to its caller and leaves the    *)
(* clusters in memory, face-groups.json and every record file as they were; *)
(* before it fails, the call changes none of them either.                   *)
DetectionErrorsAreLocal ==
    [][\A c \in Callers :
         /\ FailsWith(c, {"Image not found", "detection failed", "load failed",
                          "Face detection models not found"})
               => UNCHANGED <<faceGroups, groupsFile, faceData>>
         /\ (calls[c].pc \in {"loading", "detecting"} /\ calls'[c] # calls[c] /\ ~Constructs)
               => UNCHANGED <<faceGroups, groupsFile, faceData>>]_vars

\* detection of FileG failed while the store held a saved cluster; FileG has
\* no record and is in no cluster
DetectionFailedOnStore ==
    /\ response.kind = "detect-faces"
    /\ response.filename = FileG
    /\ response.result = Thrown("detection failed")
    /\ faceData[RecordKey(FileG)] = Missing
    /\ Len(faceGroups) = 1
    /\ faceGroups[1].images = <<FileC>>
    /\ groupsFile = saveFaceGroups(faceGroups)

-----------------------------------------------------------------------------
\* caller c's call has handled its faces and fails to write
FailsToWrite(c) ==
    /\ Finishes(c)
    /\ LastResult(c)' = Thrown("write failed")

\* every face that the call of caller c assigned is in the cluster it was assigned to
AssignmentsStand(c, groups) ==
    \A i \in 1..Len(calls[c].groups) :
        LET id == calls[c].groups[i].groupId
        IN  /\ Includes(getGroupImages(groups, id), calls[c].filename)
            /\ \E j \in 1..Len(getFaceGroups(groups)) :
                  /\ getFaceGroups(groups)[j].id = id
                  /\ Includes(getFaceGroups(groups)[j].images, calls[c].filename)

\* a processImage call never ends well without both of its writes, and a call
\* that fails to write leaves the clusters in memory as its loop made them
WriteFailurePropagates(c) ==
    /\ (Finishes(c) /\ LastResult(c)'.kind = "ok") =>
          /\ faceData'[RecordKey(calls[c].filename)] =
                Stringify(ImageFaceRecord(calls[c].filename, calls[c].faces, calls[c].groups))
          /\ Len(calls[c].faces) > 0 => groupsFile' = saveFaceGroups(faceGroups)
    /\ Finishes(c) => LastResult(c)'.kind \in {"ok", "error"}
    /\ FailsToWrite(c) =>
          /\ faceGroups' = faceGroups
          /\ AssignmentsStand(c, faceGroups')

\* the face that caller c is about to handle is already in a cluster it belongs
\* to: one with its own embedding as reference, or one that it matches
AlreadyAssigned(c) ==
    \E i \in 1..Len(faceGroups) :
        /\ Includes(faceGroups[i].images, calls[c].filename)
        /\ \/ faceGroups[i].referenceEmbedding = CurrentFace(c).embedding
           \/ Greater(SimilarityTo(CurrentFace(c).embedding, faceGroups, i), PointSix)

\* the first face of a call for a filename that has no record although no
\* other call for it is under way: its record was not written
AfterLostRecord(c) ==
    /\ HandlesFace(c)
    /\ calls[c].idx = 1
    /\ faceData[RecordKey(calls[c].filename)] = Missing
    /\ \A d \in Callers \ {c} :
          calls[d].pc \in {"loading", "detecting", "matching"}
             => RecordKey(calls[d].filename) # RecordKey(calls[c].filename)

MemoryInvariants ==
    \A i \in 1..Len(faceGroups) :
        /\ CompleteCluster(faceGroups[i])
        /\ NoRepeat(faceGroups[i].images)
        /\ \A j \in 1..Len(faceGroups) : faceGroups[i].id = faceGroups[j].id => i = j

(* C23, as claimed: a processImage call whose record or cluster-set write    *)
(* fails raises the error; the clusters in memory keep their invariants and  *)
(* keep answering getFaceGroups and getGroupImages; and a later              *)
(* processImage of the same file creates no second cluster for a face of it  *)
(* that was already assigned.                                                *)
WriteFailureKeepsMemory ==
    /\ []MemoryInvariants
    /\ [][\A c \in Callers :
            /\ WriteFailurePropagates(c)
            /\ (AfterLostRecord(c) /\ AlreadyAssigned(c))
                   => Len(faceGroups') = Len(faceGroups)]_vars

(* C23, amended: the same, where the face that was already assigned has an  *)
(* embedding of non-zero norm; whether a record was lost before or not, a    *)
(* face of non-zero norm that is already in a cluster it matches creates no  *)
(* cluster and is assigned to a cluster that holds its filename.              *)
WriteFailureKeepsMemoryNonZero ==
    /\ []MemoryInvariants
    /\ [][\A c \in Callers :
            /\ WriteFailurePropagates(c)
            /\ (HandlesFace(c) /\ AlreadyAssigned(c) /\ NonZero(CurrentFace(c).embedding))
                   => /\ Len(faceGroups') = Len(faceGroups)
                      /\ Includes(getGroupImages(faceGroups', EmittedEntry(c).groupId),
                                  calls[c].filename)]_vars

\* a batch of FileC twice: the record write of the first call failed, the
\* second call found FileC's cluster and returned its record
ReprocessedAfterWriteFailure ==
    /\ response.kind = "batch-done"
    /\ Len(response.results) = 2
    /\ response.results[1] = [filename |-> FileC, error |-> "write failed"]
    /\ ~IsErrorEntry(response.results[2])
    /\ response.results[2].filename = FileC
    /\ Len(faceGroups) = 1
    /\ faceGroups[1].images = <<FileC>>
    /\ response.results[2].groups = <<[groupId |-> faceGroups[1].id, similarity |-> One]>>

-----------------------------------------------------------------------------
\* this step starts the processImage(filename) call of caller c
StartsCall(c, filename) ==
    IF c = "batch"
    THEN /\ batch'.pc = "running"
         /\ batch'.i # batch.i
         /\ batch'.filenames[batch'.i] = filename
    ELSE StartsRequest(c, filename)

\* how the call of caller c stands after the step that started it
StartedAs(c) ==
    IF calls'[c].pc \in {"loading", "detecting"} THEN calls'[c].pc
    ELSE IF LastResult(c)'.kind = "error" THEN LastResult(c)'.message
    ELSE "returned"

(* C24: while the model files are missing every processImage call on an     *)
(* unprocessed image fails, changes nothing in the store and leaves          *)
(* modelsLoaded false; once the files are there a call on an unprocessed     *)
(* image loads them first and goes on to detection with modelsLoaded true;   *)
(* detection never runs while modelsLoaded is false; and modelsLoaded stays  *)
(* true for the life of the service object.                                  *)
DetectorUnavailableIsRecoverable ==
    /\ [](\A c \in Callers : calls[c].pc \in {"detecting", "matching"} => modelsLoaded)
    /\ [](~modelsOnDisk => ~modelsLoaded)
    /\ [][/\ \A c \in Callers, filename \in Filenames :
                (StartsCall(c, filename) /\ ~AlreadyProcessed(filename)) =>
                    /\ ~modelsOnDisk =>
                          /\ StartedAs(c) \in {"Image not found",
                                               "Face detection models not found"}
                          /\ filename \in ImageFiles
                                => StartedAs(c) = "Face detection models not found"
                          /\ ~modelsLoaded'
                          /\ UNCHANGED <<faceGroups, groupsFile, faceData>>
                    /\ (modelsOnDisk /\ filename \in ImageFiles) =>
                          StartedAs(c) = IF modelsLoaded THEN "detecting" ELSE "loading"
          /\ \A c \in Callers :
                (calls[c].pc = "loading" /\ calls'[c].pc = "detecting") => modelsLoaded'
          /\ (modelsLoaded /\ ~modelsLoaded') => Constructs]_vars

\* the batch [FileC, FileC]: the first call failed for want of the models, which
\* were then installed; the second call has loaded them and awaits detection
RetriedAfterModelsInstalled ==
    /\ batch.pc = "running"
    /\ batch.filenames = <<FileC, FileC>>
    /\ batch.i = 2
    /\ batch.results = <<[filename |-> FileC, error |-> "Face detection models not found"]>>
    /\ calls["batch"].pc = "detecting"
    /\ modelsLoaded
    /\ modelsOnDisk

-----------------------------------------------------------------------------
(* C26: cosineSimilarity is 0 whenever one of its arguments has zero norm;   *)
(* a face with the all-zero embedding matches no cluster, and processImage   *)
(* creates a cluster for it with that embedding as reference and the         *)
(* filename as its one image.                                                *)
DegenerateEmbeddings ==
    /\ [](/\ \A e \in Embeddings :
                /\ cosineSimilarity(e, EZ) = Zero
                /\ cosineSimilarity(EZ, e) = Zero
          /\ matchFace(EZ, faceGroups) = NoMatch
          /\ \A e \in Embeddings, i \in RefIs(faceGroups, EZ) :
                /\ SimilarityTo(e, faceGroups, i) = Zero
                /\ matchFace(e, faceGroups).faceId # NoId =>
                      MapGet(faceGroups, matchFace(e, faceGroups).faceId).referenceEmbedding # EZ)
    /\ [][\A c \in Callers :
            (HandlesFace(c) /\ ~NonZero(CurrentFace(c).embedding)) =>
                LET id == EmittedEntry(c).groupId
                IN  /\ EmittedEntry(c).similarity = One
                    /\ MapHas(faceGroups', id)
                    /\ MapGet(faceGroups', id).referenceEmbedding = CurrentFace(c).embedding
                    /\ MapGet(faceGroups', id).images = <<calls[c].filename>>
                    /\ Len(faceGroups') = IF MapHas(faceGroups, id) THEN Len(faceGroups)
                                          ELSE Len(faceGroups) + 1]_vars

\* FileAB's all-zero face has become the second cluster, next to the cluster
\* of FileC's face
ZeroFaceOwnCluster ==
    \E c \in Callers :
        /\ running = c
        /\ calls[c].filename = FileAB
        /\ calls[c].idx = 2
        /\ Len(faceGroups) = 2
        /\ faceGroups[1].referenceEmbedding = E1
        /\ faceGroups[1].images = <<FileC>>
        /\ faceGroups[2].referenceEmbedding = EZ
        /\ faceGroups[2].images = <<FileAB>>
        /\ calls[c].groups = <<[groupId |-> faceGroups[2].id, similarity |-> One]>>

-----------------------------------------------------------------------------
\* the image of caller c's call has two faces with one embedding of non-zero norm
TwoEqualFaces(c) ==
    /\ Len(calls[c].faces) = 2
    /\ calls[c].faces[1].embedding = calls[c].faces[2].embedding
    /\ NonZero(calls[c].faces[1].embedding)

\* in the given state of the call and of the cluster map, the first face of
\* caller c's image has its own cluster, with the filename as its one image
FirstFaceHasOwnCluster(call, groups) ==
    /\ call.idx = 2
    /\ Len(call.groups) = 1
    /\ call.groups[1].similarity = One
    /\ MapHas(groups, call.groups[1].groupId)
    /\ MapGet(groups, call.groups[1].groupId) =
          [id |-> call.groups[1].groupId,
           referenceEmbedding |-> call.faces[1].embedding,
           images |-> <<call.filename>>]

(* C28: when an image has two faces with the same embedding of non-zero norm *)
(* and no cluster matches it, the first face creates one cluster, the second *)
(* face matches that cluster and changes nothing in the cluster map: both   *)
(* entries carry the one id and the filename is in the cluster's images      *)
(* once.                                                                     *)
SecondFaceJoinsFirst ==
    [][\A c \in Callers :
         /\ (HandlesFace(c) /\ TwoEqualFaces(c) /\ calls[c].idx = 1
                /\ ~Matches(faceGroups, CurrentFace(c).embedding)) =>
               /\ running' = c
               /\ FirstFaceHasOwnCluster(calls'[c], faceGroups')
               /\ Len(faceGroups') =
                     IF MapHas(faceGroups, EmittedEntry(c).groupId) THEN Len(faceGroups)
                     ELSE Len(faceGroups) + 1
         /\ (HandlesFace(c) /\ TwoEqualFaces(c) /\ FirstFaceHasOwnCluster(calls[c], faceGroups)) =>
               /\ faceGroups' = faceGroups
               /\ GroupIdsOf(calls'[c].groups)
                     = <<calls[c].groups[1].groupId, calls[c].groups[1].groupId>>]_vars

\* both faces of FileT are in the one cluster made for the first of them, next
\* to the cluster of FileC that the faces are exactly 0.6 similar to
TwoEqualFacesOneCluster ==
    \E c \in Callers :
        /\ running = c
        /\ calls[c].filename = FileT
        /\ calls[c].idx = 3
        /\ Len(faceGroups) = 2
        /\ faceGroups[1].referenceEmbedding = E1
        /\ faceGroups[1].images = <<FileC>>
        /\ faceGroups[2].referenceEmbedding = E2
        /\ faceGroups[2].images = <<FileT>>
        /\ calls[c].groups = <<[groupId |-> faceGroups[2].id, similarity |-> One],
                               [groupId |-> faceGroups[2].id, similarity |-> One]>>

-----------------------------------------------------------------------------
\* the cluster map holds a cluster under the id, with the filename in its images
HoldsMember(groups, id, filename) ==
    /\ MapHas(groups, id)
    /\ Includes(MapGet(groups, id).images, filename)

\* every entry of every record names a cluster, in memory and in
\* face-groups.json, that holds the record's filename, with a similarity of
\* 1.0 or more than 0.6
ReferentialIntegrity ==
    \A k \in RecordKeys :
        CanParse(faceData[k]) =>
            LET r == Parse(faceData[k])
            IN  \A i \in 1..Len(r.groups) :
                    /\ HoldsMember(faceGroups, r.groups[i].groupId, r.filename)
                    /\ CanParse(groupsFile)
                    /\ HoldsMember(Parse(groupsFile), r.groups[i].groupId, r.filename)
                    /\ \/ r.groups[i].similarity = One
                       \/ Greater(r.groups[i].similarity, PointSix)

\* this step is part of a processImage call and is not a failing write
SuccessfulStep ==
    /\ ~Constructs
    /\ \A c \in Callers : ~FailsToWrite(c)

(* C27: as long as no processImage call fails to write, every entry of every *)
(* record names a cluster that is in memory and in face-groups.json and      *)
(* holds the record's filename, with similarity 1.0 or more than 0.6.        *)
RecordsReferToClusters ==
    [][(ReferentialIntegrity /\ SuccessfulStep) => ReferentialIntegrity']_vars

-----------------------------------------------------------------------------
\* the record that the first call to finish wrote for the file of caller c's call
FirstRecord(c) == firstWritten[RecordKey(calls[c].filename)]

\* caller c's call is the second of two calls for one file to reach its loop:
\* the other has written the record since c passed the cache test.  Every face
\* of the file has an embedding of non-zero norm.
SecondOfTwo(c) ==
    /\ running = c
    /\ calls[c].pc = "matching"
    /\ CanParse(FirstRecord(c))
    /\ Parse(FirstRecord(c)).filename = calls[c].filename
    /\ \A i \in 1..Len(calls[c].faces) : NonZero(calls[c].faces[i].embedding)

(* C29: of two overlapping processImage calls for one unprocessed file, the  *)
(* second to reach its loop leaves the clusters as the first left them       *)
(* (the number of clusters and their images are those after a single call)   *)
(* and returns group entries with the cluster ids that the first returned.   *)
OverlappingCallsConverge ==
    [][\A c \in Requests :
         SecondOfTwo(c) =>
            /\ HandlesFace(c) => faceGroups' = faceGroups
            /\ (Finishes(c) /\ LastResult(c)'.kind = "ok") =>
                  GroupIdsOf(LastResult(c)'.value.groups)
                     = GroupIdsOf(Parse(FirstRecord(c)).groups)]_vars

-----------------------------------------------------------------------------
(* C30: whether the progress callback throws or not, each step of            *)
(* processImages that takes in a record adds exactly one entry to the        *)
(* results, that record, and goes on to the next filename.                   *)
CallbackFailureKeepsBatch ==
    [][(CollectsResult /\ calls["batch"].result.kind = "ok") =>
          LET i == batch.i
          IN  /\ Len(ResultsAfter) = i
              /\ ResultsAfter[i] = calls["batch"].result.value
              /\ i < Len(batch.filenames) =>
                    /\ batch'.pc = "running"
                    /\ batch'.i = i + 1
                    /\ batch'.filenames = batch.filenames]_vars

-----------------------------------------------------------------------------
(* C25: cosineSimilarity(a, b) equals cosineSimilarity(b, a) for all vectors *)
(* of one length, and cosineSimilarity(a, a) equals 1.0 for every a that is  *)
(* not all zero.                                                             *)
CosineSymmetricAndReflexive ==
    response.kind = "cosine" =>
        /\ response.value = cosineSimilarityRounded(response.embedding2, response.embedding1)
        /\ (response.embedding1 = response.embedding2 /\ NonZero(response.embedding1))
              => response.value = One

====
